---- MODULE Spec2Model ----
(***************************************************************************)
(* Model of highrise/__init__.py: the Highrise connection facade, its      *)
(* process-wide request id counter and registry, do_req_resp, and the      *)
(* inbound read loop that routes decoded Incoming messages either to a     *)
(* pending request's queue or to a BaseBot handler.                        *)
(*                                                                         *)
(* The read loop, the tagged-union decoder and the message classes live    *)
(* outside highrise/__init__.py; they are modelled from the design         *)
(* document (sections 4.1 - 4.3).                                          *)
(***************************************************************************)
EXTENDS Integers, Sequences, FiniteSets

VARIABLES
    req_id,           \* Highrise._req_id: the next value count() will yield
    req_id_registry,  \* Highrise._req_id_registry: rid -> queue (named by its call)
    queue,            \* queue[c]: contents of the Queue(maxsize=1) created by call c
    call,             \* call[c]: one call of a facade method (a coroutine)
    sent,             \* sent[h]: frames handed to instance h's ws, in order
    handled,          \* handler coroutines started by the read loop, in order
    loop,             \* the read loop: "running" or "crashed"
    frame,            \* the frame the read loop read last
    outcome,          \* what the read loop did with it
    nread,            \* frames read so far
    decode_errors,    \* DecodeErrors surfaced so far
    ndeliv,           \* ndeliv[c]: values ever put on call c's queue
    firstMatch,       \* firstMatch[c]: first message read with c's id since c took it
    caller,           \* caller[c]: the handler invocation awaiting call c (0: none)
    tg,               \* tg[t]: the task call_in created in the task group for t
    codec             \* a value on its way through converter.dumps and .loads

vars == <<req_id, req_id_registry, queue, call, sent, handled, loop, frame,
          outcome, nread, decode_errors, ndeliv, firstMatch, caller, tg, codec>>

(***************************** bounds **************************************)
MaxCalls == 2      \* facade calls made in a run
MaxFrames == 2     \* inbound frames read in a run

Calls == 1..MaxCalls
Instances == {"hr1", "hr2"}

None == "<None>"   \* Python's None

(************************ str(next(_req_id)) *******************************)
\* count(): the first value yielded (variant: a counter that starts at 1)
CountStart_one == 0 + 1
CountStart == 0

Digit(d) ==
    CASE d = 0 -> "0" [] d = 1 -> "1" [] d = 2 -> "2" [] d = 3 -> "3"
      [] d = 4 -> "4" [] d = 5 -> "5" [] d = 6 -> "6" [] d = 7 -> "7"
      [] d = 8 -> "8" [] d = 9 -> "9"

RECURSIVE str(_)
str(n) == IF n < 10 THEN Digit(n) ELSE str(n \div 10) \o Digit(n % 10)

\* next(count): the value yielded, and the counter afterwards
\* (variants: the value after the increment is yielded; a counter that
\* does not advance)
NextValue_after_increment(n) == n + 1
NextValue(n) == n
AfterNext_stuck(n) == n
AfterNext(n) == n + 1

(************************* outgoing requests *******************************)
CorrelatedOps == {"set_indicator", "send_channel", "teleport", "get_room_users"}

\* the request object each correlated facade method builds, rid not yet set
Request(op) ==
    CASE op = "set_indicator"  -> [kind |-> "IndicatorRequest",    rid |-> None]
      [] op = "send_channel"   -> [kind |-> "ChannelRequest",      rid |-> None]
      [] op = "teleport"       -> [kind |-> "TeleportRequest",     rid |-> None]
      [] op = "get_room_users" -> [kind |-> "GetRoomUsersRequest", rid |-> None]

\* req.rid = rid (variant: the id is not written to the request)
Stamp_forgotten(req, rid) == req
Stamp(req, rid) == [req EXCEPT !.rid = rid]

\* rid in registry
Has(reg, rid) == rid \in DOMAIN reg

\* hr._req_id_registry[rid] = q (variant: the queue is not registered)
Register_missing(reg, rid, q) == reg
Register(reg, rid, q) ==
    [r \in DOMAIN reg \cup {rid} |-> IF r = rid THEN q ELSE reg[r]]

\* converter.dumps(req, Outgoing): the class becomes the frame's _type tag
dumps(req) == [_type |-> req.kind, rid |-> req.rid]

\* ws.send_str / ws.send_json: one frame handed to the transport
send(ws, fr) == Append(ws, fr)

(*********************** one-way facade methods ****************************)
\* Highrise.chat
chat(ws, message) == send(ws, [_type |-> "ChatRequest", message |-> message])

\* Highrise.send_whisper
send_whisper(ws, user_id, message) ==
    send(ws, [_type |-> "ChatRequest", message |-> message,
              whisper_target_id |-> user_id])

\* Highrise.send_emote: target_user_id is added only when it is given
\* (variant: nothing is sent when no target is given)
send_emote_untargeted_lost(ws, emote_id, target_user_id) ==
    IF target_user_id /= None
    THEN send(ws, [_type |-> "EmoteRequest", emote_id |-> emote_id,
                   target_user_id |-> target_user_id])
    ELSE ws
send_emote(ws, emote_id, target_user_id) ==
    IF target_user_id /= None
    THEN send(ws, [_type |-> "EmoteRequest", emote_id |-> emote_id,
                   target_user_id |-> target_user_id])
    ELSE send(ws, [_type |-> "EmoteRequest", emote_id |-> emote_id])

\* Highrise.walk_to
walk_to(ws, dest, facing) ==
    send(ws, [_type |-> "FloorHitRequest", destination |-> dest,
              facing |-> facing])

OneWayTypes == {"ChatRequest", "EmoteRequest", "FloorHitRequest"}

(************************* incoming messages *******************************)
\* the Incoming union, by discriminant tag
\* (variant: a union that also admits RoomInfoEvent)
IncomingTags_open ==
    {"Error", "GetRoomUsersResponse", "ChatEvent", "EmoteEvent",
     "UserJoinedEvent", "UserLeftEvent", "ChannelEvent", "TipReactionEvent",
     "IndicatorResponse", "ChannelResponse", "TeleportResponse",
     "RoomInfoEvent"}
IncomingTags ==
    {"Error", "GetRoomUsersResponse", "ChatEvent", "EmoteEvent",
     "UserJoinedEvent", "UserLeftEvent", "ChannelEvent", "TipReactionEvent",
     "IndicatorResponse", "ChannelResponse", "TeleportResponse"}

\* the SessionMetadata | Error union
HandshakeTags == {"SessionMetadata", "Error"}

\* the Incoming variants that carry a rid (_ClassWithId)
CorrelatedKinds ==
    {"Error", "GetRoomUsersResponse", "IndicatorResponse", "ChannelResponse",
     "TeleportResponse"}

EventKinds == (IncomingTags \cup HandshakeTags) \ CorrelatedKinds

\* tags the server may send that no configured union knows
UnknownTags == {"RoomInfoEvent"}

\* the ids a frame may carry: none, every id a run can issue, one it cannot
WireRids == {None} \cup {str(n) : n \in 0..MaxCalls}

\* the frames the server may put on the wire
InFrames ==
    [_type : CorrelatedKinds, rid : WireRids, whisper : {FALSE}]
    \cup [_type : EventKinds, rid : {None}, whisper : {FALSE}]
    \cup [_type : {"ChatEvent"}, rid : {None}, whisper : {TRUE}]
    \cup [_type : UnknownTags, rid : {None, str(0)}, whisper : {FALSE}]

DecodeError == [kind |-> "DecodeError", rid |-> None, whisper |-> FALSE]

\* converter.loads(frame, Incoming): the tag selects the variant
loads(fr) ==
    IF fr._type \in IncomingTags \cup HandshakeTags
    THEN [kind |-> fr._type, rid |-> fr.rid, whisper |-> fr.whisper]
    ELSE DecodeError

(*************************** BaseBot ***************************************)
\* the handlers BaseBot defines
BaseBotHandlers ==
    {"on_start", "on_chat", "on_whisper", "on_emote", "on_user_join",
     "on_tip", "on_channel"}

\* the dispatch table of the event dispatcher
Route(msg) ==
    CASE msg.kind = "ChatEvent" ->
             IF msg.whisper THEN "on_whisper" ELSE "on_chat"
      [] msg.kind = "EmoteEvent"       -> "on_emote"
      [] msg.kind = "UserJoinedEvent"  -> "on_user_join"
      [] msg.kind = "UserLeftEvent"    -> "on_user_left"
      [] msg.kind = "TipReactionEvent" -> "on_tip"
      [] msg.kind = "ChannelEvent"     -> "on_channel"
      [] msg.kind = "SessionMetadata"  -> "on_start"
      [] OTHER -> None

(***************************** state ***************************************)
QueueMaxSize == 1

\* nothing read yet
NoFrame == [_type |-> None, rid |-> None, whisper |-> FALSE]

IdleCall == [pc |-> "idle", op |-> None, hr |-> None, rid |-> None,
             req |-> [kind |-> None, rid |-> None], ret |-> <<>>]

\* the callbacks handed to call_in in a run
Timers == {"cb1", "cb2"}

\* no task yet for a callback
NoTask == [pc |-> "none", delay |-> 0, elapsed |-> 0, slept |-> 0, runs |-> 0]

\* nothing on the codec's bench
NoCodec == [stage |-> "idle", union |-> None, v |-> None, wire |-> None,
            back |-> None]

\* the process after import: class attributes set, nothing called yet
InitState ==
    /\ req_id = CountStart
    /\ req_id_registry = [r \in {} |-> 0]
    /\ queue = [c \in Calls |-> <<>>]
    /\ call = [c \in Calls |-> IdleCall]
    /\ sent = [h \in Instances |-> <<>>]
    /\ handled = <<>>
    /\ loop = "running"
    /\ frame = NoFrame
    /\ outcome = None
    /\ nread = 0
    /\ decode_errors = 0
    /\ ndeliv = [c \in Calls |-> 0]
    /\ firstMatch = [c \in Calls |-> <<>>]
    /\ caller = [c \in Calls |-> 0]
    /\ tg = [t \in Timers |-> NoTask]

Init == InitState /\ codec = NoCodec

inbound == <<handled, loop, frame, outcome, nread, decode_errors, ndeliv, firstMatch>>

\* a call slot is taken in index order: slot c holds the c-th call started
CanStart(c) ==
    /\ call[c].pc = "idle"
    /\ \A d \in Calls : d < c => call[d].pc /= "idle"

\* instances are named in the order in which they are first used
CanUse(h) == h = "hr1" \/ \E d \in Calls : call[d].hr = "hr1"

(********************* correlated facade methods ***************************)
\* do_req_resp(hr, req) up to its first await: take the id, stamp it on
\* req, register the queue
\* (variant: the frame is sent first and the queue is to be registered
\* after the send)
do_req_resp_steps_send_first(c, h, op, req) ==
    /\ CanStart(c)
    /\ CanUse(h)
    /\ LET rid == str(NextValue(req_id))
       IN /\ req_id' = AfterNext(req_id)
          /\ call' = [call EXCEPT ![c] =
                 [pc |-> "register", op |-> op, hr |-> h, rid |-> rid,
                  req |-> Stamp(req, rid), ret |-> <<>>]]
          /\ sent' = [sent EXCEPT ![h] = send(@, dumps(Stamp(req, rid)))]
    /\ UNCHANGED <<queue, req_id_registry>>
    /\ UNCHANGED inbound
    /\ UNCHANGED <<tg, codec>>
do_req_resp_steps(c, h, op, req) ==
    /\ CanStart(c)
    /\ CanUse(h)
    /\ LET rid == str(NextValue(req_id))
       IN /\ req_id' = AfterNext(req_id)
          /\ call' = [call EXCEPT ![c] =
                 [pc |-> "send", op |-> op, hr |-> h, rid |-> rid,
                  req |-> Stamp(req, rid), ret |-> <<>>]]
          /\ req_id_registry' = Register(req_id_registry, rid, c)
    /\ UNCHANGED <<queue, sent>>
    /\ UNCHANGED inbound
    /\ UNCHANGED <<tg, codec>>

\* set_indicator, send_channel and teleport: do_req_resp on the request
\* they build, called from the bot's own code
do_req_resp(c, h, op) ==
    /\ op \in CorrelatedOps \ {"get_room_users"}
    /\ do_req_resp_steps(c, h, op, Request(op))
    /\ UNCHANGED caller

\* Highrise.get_room_users up to its first await: the request is built
\* with the id as its constructor argument
\* (variant: the request is built without the id)
get_room_users_unstamped(c, h) ==
    /\ CanStart(c)
    /\ CanUse(h)
    /\ LET id == str(NextValue(req_id))
       IN /\ req_id' = AfterNext(req_id)
          /\ req_id_registry' = Register(req_id_registry, id, c)
          /\ call' = [call EXCEPT ![c] =
                 [pc |-> "send", op |-> "get_room_users", hr |-> h,
                  rid |-> id,
                  req |-> [kind |-> "GetRoomUsersRequest", rid |-> None],
                  ret |-> <<>>]]
    /\ UNCHANGED <<queue, sent>>
    /\ UNCHANGED inbound
    /\ UNCHANGED <<caller, tg, codec>>
get_room_users(c, h) ==
    /\ CanStart(c)
    /\ CanUse(h)
    /\ LET id == str(NextValue(req_id))
       IN /\ req_id' = AfterNext(req_id)
          /\ req_id_registry' = Register(req_id_registry, id, c)
          /\ call' = [call EXCEPT ![c] =
                 [pc |-> "send", op |-> "get_room_users", hr |-> h,
                  rid |-> id,
                  req |-> [kind |-> "GetRoomUsersRequest", rid |-> id],
                  ret |-> <<>>]]
    /\ UNCHANGED <<queue, sent>>
    /\ UNCHANGED inbound
    /\ UNCHANGED <<caller, tg, codec>>

\* await ws.send_str(converter.dumps(req, Outgoing)) completes
SendOk(c) ==
    /\ call[c].pc = "send"
    /\ sent' = [sent EXCEPT ![call[c].hr] = send(@, dumps(call[c].req))]
    /\ call' = [call EXCEPT ![c].pc = "get"]
    /\ UNCHANGED <<req_id, req_id_registry, queue>>
    /\ UNCHANGED inbound
    /\ UNCHANGED <<caller, tg, codec>>

\* await ws.send_str(...) raises: the exception leaves the facade method
\* (variant: the entry is taken out of the registry on the way out)
SendFail_cleanup(c) ==
    /\ call[c].pc = "send"
    /\ call' = [call EXCEPT ![c].pc = "raised"]
    /\ req_id_registry' =
           [r \in DOMAIN req_id_registry \ {call[c].rid} |-> req_id_registry[r]]
    /\ UNCHANGED <<req_id, queue, sent>>
    /\ UNCHANGED inbound
    /\ UNCHANGED <<caller, tg, codec>>
SendFail(c) ==
    /\ call[c].pc = "send"
    /\ call' = [call EXCEPT ![c].pc = "raised"]
    /\ UNCHANGED <<req_id, req_id_registry, queue, sent>>
    /\ UNCHANGED inbound
    /\ UNCHANGED <<caller, tg, codec>>

\* return await q.get(): whatever was put on the queue is the return value
\* (variant: an Error is raised instead of returned)
Returned_raising(cl, v) ==
    IF v.kind = "Error" THEN [cl EXCEPT !.pc = "raised"]
    ELSE [cl EXCEPT !.pc = "done", !.ret = <<v>>]
Returned(cl, v) == [cl EXCEPT !.pc = "done", !.ret = <<v>>]

\* (variant: the wait for the queue gives up with a timeout error)
Get_timeout(c) ==
    /\ call[c].pc = "get"
    /\ IF queue[c] /= <<>>
       THEN /\ queue' = [queue EXCEPT ![c] = Tail(@)]
            /\ call' = [call EXCEPT ![c] = Returned(@, Head(queue[c]))]
       ELSE /\ queue' = queue
            /\ call' = [call EXCEPT ![c].pc = "raised"]
    /\ UNCHANGED <<req_id, req_id_registry, sent>>
    /\ UNCHANGED inbound
    /\ UNCHANGED <<caller, tg, codec>>
Get(c) ==
    /\ call[c].pc = "get"
    /\ queue[c] /= <<>>
    /\ queue' = [queue EXCEPT ![c] = Tail(@)]
    /\ call' = [call EXCEPT ![c] = Returned(@, Head(queue[c]))]
    /\ UNCHANGED <<req_id, req_id_registry, sent>>
    /\ UNCHANGED inbound
    /\ UNCHANGED <<caller, tg, codec>>

(************************ one-way facade calls *****************************)
Messages == {"hi"}
Users == {"u1"}
Emotes == {"wave"}
OneWayOps == {"chat", "send_whisper", "send_emote", "walk_to"}

\* a one-way facade method: its only await is the send
OneWay(c, h) ==
    /\ CanStart(c)
    /\ CanUse(h)
    /\ \E op \in OneWayOps :
         /\ call' = [call EXCEPT ![c] =
                [IdleCall EXCEPT !.pc = "done", !.op = op, !.hr = h]]
         /\ \/ /\ op = "chat"
               /\ \E m \in Messages : sent' = [sent EXCEPT ![h] = chat(@, m)]
            \/ /\ op = "send_whisper"
               /\ \E u \in Users, m \in Messages :
                      sent' = [sent EXCEPT ![h] = send_whisper(@, u, m)]
            \/ /\ op = "send_emote"
               /\ \E e \in Emotes, t \in Users \cup {None} :
                      sent' = [sent EXCEPT ![h] = send_emote(@, e, t)]
            \/ /\ op = "walk_to"
               /\ sent' = [sent EXCEPT ![h] =
                              walk_to(@, <<1, 0, 1>>, "FrontRight")]
    /\ UNCHANGED <<req_id, req_id_registry, queue>>
    /\ UNCHANGED inbound
    /\ UNCHANGED <<caller, tg, codec>>

(***************************** read loop ***********************************)
\* the registry without rid (the pop of the delivery step)
Pop(reg, rid) == [r \in DOMAIN reg \ {rid} |-> reg[r]]

\* firstMatch after msg was read
NoteMatch(msg) ==
    [c \in Calls |->
        IF /\ call[c].pc /= "idle"
           /\ call[c].op \in CorrelatedOps
           /\ firstMatch[c] = <<>>
           /\ msg.kind /= "DecodeError"
           /\ msg.rid = call[c].rid
        THEN <<msg>> ELSE firstMatch[c]]

\* the frame does not decode: the error is surfaced, the loop goes on
OnDecodeError(msg) ==
    /\ msg.kind = "DecodeError"
    /\ outcome' = "decode_error"
    /\ decode_errors' = decode_errors + 1
    /\ loop' = loop
    /\ UNCHANGED <<req_id_registry, queue, handled, ndeliv>>

\* the message carries the id of a live registry entry: put it on that
\* entry's queue and remove the entry
Deliver(msg) ==
    /\ msg.kind /= "DecodeError"
    /\ msg.rid /= None
    /\ Has(req_id_registry, msg.rid)
    /\ LET c == req_id_registry[msg.rid]
       IN IF Len(queue[c]) < QueueMaxSize
          THEN /\ queue' = [queue EXCEPT ![c] = Append(@, msg)]
               /\ ndeliv' = [ndeliv EXCEPT ![c] = @ + 1]
               /\ req_id_registry' = Pop(req_id_registry, msg.rid)
               /\ outcome' = "delivered"
               /\ loop' = loop
          ELSE \* put_nowait raises QueueFull out of the loop
               /\ req_id_registry' = Pop(req_id_registry, msg.rid)
               /\ outcome' = "queue_full"
               /\ loop' = "crashed"
               /\ UNCHANGED <<queue, ndeliv>>
    /\ UNCHANGED <<handled, decode_errors>>

\* a response or Error whose id has no live entry: dropped
\* (variant: it falls through to the event dispatcher)
Drop_to_dispatcher(msg) ==
    /\ msg.kind /= "DecodeError"
    /\ msg.kind \in CorrelatedKinds \/ msg.rid /= None
    /\ ~ (msg.rid /= None /\ Has(req_id_registry, msg.rid))
    /\ handled' = Append(handled, [handler |-> "on_chat", msg |-> msg])
    /\ outcome' = "dropped"
    /\ loop' = loop
    /\ UNCHANGED <<req_id_registry, queue, ndeliv, decode_errors>>
Drop(msg) ==
    /\ msg.kind /= "DecodeError"
    /\ msg.kind \in CorrelatedKinds \/ msg.rid /= None
    /\ ~ (msg.rid /= None /\ Has(req_id_registry, msg.rid))
    /\ outcome' = "dropped"
    /\ loop' = loop
    /\ UNCHANGED <<req_id_registry, queue, handled, ndeliv, decode_errors>>

\* an event: start the handler BaseBot has for it, if it has one
Dispatch(msg) ==
    /\ msg.kind /= "DecodeError"
    /\ msg.kind \notin CorrelatedKinds
    /\ msg.rid = None
    /\ IF Route(msg) \in BaseBotHandlers
       THEN /\ handled' = Append(handled, [handler |-> Route(msg), msg |-> msg])
            /\ outcome' = "dispatched"
       ELSE /\ handled' = handled
            /\ outcome' = "ignored"
    /\ loop' = loop
    /\ UNCHANGED <<req_id_registry, queue, ndeliv, decode_errors>>

\* one iteration of the read loop on frame fr
\* (variant: the loop awaits each handler it starts, and so does not read
\* while a handler is inside a facade call)
ReadLoop_awaits_handler(fr) ==
    /\ loop = "running"
    /\ \A c \in Calls : caller[c] > 0 => call[c].pc \notin {"send", "get"}
    /\ nread < MaxFrames
    /\ nread' = nread + 1
    /\ frame' = fr
    /\ LET msg == loads(fr)
       IN /\ firstMatch' = NoteMatch(msg)
          /\ \/ OnDecodeError(msg)
             \/ Deliver(msg)
             \/ Drop(msg)
             \/ Dispatch(msg)
    /\ UNCHANGED <<req_id, call, sent>>
    /\ UNCHANGED <<caller, tg, codec>>
ReadLoop(fr) ==
    /\ loop = "running"
    /\ nread < MaxFrames
    /\ nread' = nread + 1
    /\ frame' = fr
    /\ LET msg == loads(fr)
       IN /\ firstMatch' = NoteMatch(msg)
          /\ \/ OnDecodeError(msg)
             \/ Deliver(msg)
             \/ Drop(msg)
             \/ Dispatch(msg)
    /\ UNCHANGED <<req_id, call, sent>>
    /\ UNCHANGED <<caller, tg, codec>>

Next ==
    \/ \E c \in Calls, h \in Instances, op \in CorrelatedOps :
           do_req_resp(c, h, op)
    \/ \E c \in Calls, h \in Instances : get_room_users(c, h)
    \/ \E c \in Calls : SendOk(c)
    \/ \E c \in Calls : SendFail(c)
    \/ \E c \in Calls : Get(c)
    \/ \E c \in Calls, h \in Instances : OneWay(c, h)
    \/ \E fr \in InFrames : ReadLoop(fr)

Spec == Init /\ [][Next]_vars

(***************************************************************************)
(* The correlator alone: the same actions, driven by fewer inputs - one    *)
(* instance, the two ways into the correlator (teleport through            *)
(* do_req_resp, and get_room_users), and frames of three correlated        *)
(* variants, one event and one unknown tag.                                *)
(***************************************************************************)
CorrInstances == {"hr1"}
CorrOps == {"teleport"}
CorrFrames ==
    [_type : {"Error", "TeleportResponse", "GetRoomUsersResponse"},
     rid : WireRids, whisper : {FALSE}]
    \cup [_type : {"ChatEvent"}, rid : {None}, whisper : {FALSE}]
    \cup [_type : UnknownTags, rid : {str(0)}, whisper : {FALSE}]

NextCorr ==
    \/ \E c \in Calls, h \in CorrInstances, op \in CorrOps :
           do_req_resp(c, h, op)
    \/ \E c \in Calls, h \in CorrInstances : get_room_users(c, h)
    \/ \E c \in Calls : SendOk(c)
    \/ \E c \in Calls : SendFail(c)
    \/ \E c \in Calls : Get(c)
    \/ \E fr \in CorrFrames : ReadLoop(fr)

SpecCorr == Init /\ [][NextCorr]_vars

(***************************************************************************)
(* The facade's one-way methods beside one correlated method: every        *)
(* one-way method on either instance, teleport, and the responses and      *)
(* Errors a teleport can be sent.                                          *)
(***************************************************************************)
FacadeFrames ==
    [_type : {"Error", "TeleportResponse"}, rid : WireRids, whisper : {FALSE}]

NextFacade ==
    \/ \E c \in Calls, h \in Instances : OneWay(c, h)
    \/ \E c \in Calls, h \in Instances : do_req_resp(c, h, "teleport")
    \/ \E c \in Calls : SendOk(c)
    \/ \E c \in Calls : SendFail(c)
    \/ \E c \in Calls : Get(c)
    \/ \E fr \in FacadeFrames : ReadLoop(fr)

SpecFacade == Init /\ [][NextFacade]_vars

(********************** handlers that make requests ************************)
\* handler invocation i has been started and is not inside a facade call
HandlerFree(i) ==
    /\ i \in 1..Len(handled)
    /\ \A d \in Calls : caller[d] = i => call[d].pc \notin {"send", "get"}

\* a handler of a BaseBot subclass awaits a correlated method of
\* self.highrise
on_event_awaits(i, c, h, op) ==
    /\ HandlerFree(i)
    /\ op \in CorrelatedOps \ {"get_room_users"}
    /\ do_req_resp_steps(c, h, op, Request(op))
    /\ caller' = [caller EXCEPT ![c] = i]

(***************************************************************************)
(* Handlers that call back into the facade: the read loop on chat and      *)
(* emote events, teleport responses and Errors; handlers awaiting          *)
(* teleport.  The event loop resumes a task whose queue has a value, hence *)
(* the fairness.                                                           *)
(***************************************************************************)
HandlerFrames ==
    [_type : {"TeleportResponse", "Error"}, rid : {str(0), str(1)},
     whisper : {FALSE}]
    \cup [_type : {"ChatEvent", "EmoteEvent"}, rid : {None}, whisper : {FALSE}]

NextHandler ==
    \/ \E i \in 1..MaxFrames, c \in Calls :
           on_event_awaits(i, c, "hr1", "teleport")
    \/ \E c \in Calls : SendOk(c)
    \/ \E c \in Calls : SendFail(c)
    \/ \E c \in Calls : Get(c)
    \/ \E fr \in HandlerFrames : ReadLoop(fr)

SpecHandler ==
    /\ Init /\ [][NextHandler]_vars
    /\ \A c \in Calls : WF_vars(Get(c))

(***************************************************************************)
(* The class attributes under two instances: teleport and get_room_users   *)
(* on either instance, with the answers they can be sent.                  *)
(***************************************************************************)
SharedFrames ==
    [_type : {"TeleportResponse", "GetRoomUsersResponse"}, rid : WireRids,
     whisper : {FALSE}]

NextShared ==
    \/ \E c \in Calls, h \in Instances : do_req_resp(c, h, "teleport")
    \/ \E c \in Calls, h \in Instances : get_room_users(c, h)
    \/ \E c \in Calls : SendOk(c)
    \/ \E c \in Calls : SendFail(c)
    \/ \E c \in Calls : Get(c)
    \/ \E fr \in SharedFrames : ReadLoop(fr)

SpecShared == Init /\ [][NextShared]_vars

(************************* delayed callbacks *******************************)
MaxDelay == 2      \* the longest delay handed to call_in, in clock ticks
Delays == 0..MaxDelay

\* await sleep(delay): over once delay has passed since the sleep began
\* (variant: the sleep is over at once)
SleepDone_at_once(slept, delay) == TRUE
SleepDone(slept, delay) == slept >= delay

\* callbacks are named in the order in which they are handed to call_in
CanSchedule(t) ==
    /\ tg[t].pc = "none"
    /\ t = "cb1" \/ tg["cb1"].pc /= "none"

\* Highrise.call_in: self.tg.create_task(_delayed_callback(callback, delay));
\* the new task has not run yet when call_in returns
call_in(t, delay) ==
    /\ CanSchedule(t)
    /\ tg' = [tg EXCEPT ![t] = [NoTask EXCEPT !.pc = "created",
                                               !.delay = delay]]
    /\ UNCHANGED <<req_id, req_id_registry, queue, call, sent, caller, codec>>
    /\ UNCHANGED inbound

\* _delayed_callback up to its first await: await sleep(delay)
delayed_callback_sleep(t) ==
    /\ tg[t].pc = "created"
    /\ tg' = [tg EXCEPT ![t].pc = "sleeping"]
    /\ UNCHANGED <<req_id, req_id_registry, queue, call, sent, caller, codec>>
    /\ UNCHANGED inbound

\* _delayed_callback after the sleep: await callback()
delayed_callback_run(t) ==
    /\ tg[t].pc = "sleeping"
    /\ SleepDone(tg[t].slept, tg[t].delay)
    /\ tg' = [tg EXCEPT ![t].pc = "ran", ![t].runs = @ + 1]
    /\ UNCHANGED <<req_id, req_id_registry, queue, call, sent, caller, codec>>
    /\ UNCHANGED inbound

\* the clock after one more tick, counted up to the longest delay
Later(n) == IF n < MaxDelay THEN n + 1 ELSE n

\* one tick of the event loop's clock, seen by every task that waits
Tick ==
    /\ \E t \in Timers : tg[t].pc \in {"created", "sleeping"}
    /\ tg' = [t \in Timers |->
                CASE tg[t].pc = "created" ->
                         [tg[t] EXCEPT !.elapsed = Later(@)]
                  [] tg[t].pc = "sleeping" ->
                         [tg[t] EXCEPT !.elapsed = Later(@), !.slept = Later(@)]
                  [] OTHER -> tg[t]]
    /\ UNCHANGED <<req_id, req_id_registry, queue, call, sent, caller, codec>>
    /\ UNCHANGED inbound

(***************************************************************************)
(* The scheduler beside the correlator: call_in and its task, the clock,   *)
(* and one teleport call with its response.  The event loop runs every     *)
(* task that is ready and its clock advances, hence the fairness.          *)
(***************************************************************************)
SchedCalls == {1}
SchedFrames ==
    [_type : {"TeleportResponse"}, rid : {str(0), str(1)}, whisper : {FALSE}]

NextSched ==
    \/ \E t \in Timers, d \in Delays : call_in(t, d)
    \/ \E t \in Timers : delayed_callback_sleep(t)
    \/ \E t \in Timers : delayed_callback_run(t)
    \/ Tick
    \/ \E c \in SchedCalls : do_req_resp(c, "hr1", "teleport")
    \/ \E c \in SchedCalls : SendOk(c)
    \/ \E c \in SchedCalls : Get(c)
    \/ \E fr \in SchedFrames : ReadLoop(fr)

SpecSched ==
    /\ Init /\ [][NextSched]_vars
    /\ WF_vars(Tick)
    /\ \A t \in Timers : WF_vars(delayed_callback_sleep(t))
    /\ \A t \in Timers : WF_vars(delayed_callback_run(t))

(****************************** wire codec *********************************)
\* the Outgoing union, by discriminant tag
\* (variant: TeleportRequest is left out of the union)
OutgoingTags_short ==
    {"ChatEvent", "ChannelEvent", "GetRoomUsersRequest", "IndicatorRequest",
     "ChannelRequest"}
OutgoingTags ==
    {"ChatEvent", "ChannelEvent", "GetRoomUsersRequest", "IndicatorRequest",
     "ChannelRequest", "TeleportRequest"}

\* the three unions configure_tagged_union is called with
Unions == {"Outgoing", "Incoming", "SessionMetadata|Error"}
UnionTags(u) ==
    CASE u = "Outgoing" -> OutgoingTags
      [] u = "Incoming" -> IncomingTags
      [] u = "SessionMetadata|Error" -> HandshakeTags

\* converter.dumps(v, U): the fields of v and, for a class of the union,
\* its name under _type
encode(v, u) ==
    IF v.kind \in UnionTags(u)
    THEN [f \in (DOMAIN v \ {"kind"}) \cup {"_type"} |->
             IF f = "_type" THEN v.kind ELSE v[f]]
    ELSE [f \in DOMAIN v \ {"kind"} |-> v[f]]

\* converter.loads(frame, U): _type names the class of the union to build
\* from the other fields
decode(fr, u) ==
    IF "_type" \in DOMAIN fr /\ fr._type \in UnionTags(u)
    THEN [f \in (DOMAIN fr \ {"_type"}) \cup {"kind"} |->
             IF f = "kind" THEN fr._type ELSE fr[f]]
    ELSE DecodeError

\* the values of each direction, over the ids and flags of a run: what the
\* facade hands to dumps, the two events of the Outgoing union, what the
\* server sends, and what the handshake yields
OutgoingValues ==
    {Stamp(Request(op), r) : op \in CorrelatedOps, r \in WireRids}
    \cup [kind : {"ChatEvent", "ChannelEvent"}, rid : {None}, whisper : BOOLEAN]
IncomingValues ==
    [kind : CorrelatedKinds, rid : WireRids, whisper : {FALSE}]
    \cup [kind : EventKinds \ {"SessionMetadata"}, rid : {None},
          whisper : BOOLEAN]
HandshakeValues ==
    [kind : {"Error"}, rid : WireRids, whisper : {FALSE}]
    \cup [kind : {"SessionMetadata"}, rid : {None}, whisper : BOOLEAN]

CodecInputs ==
    [stage : {"value"}, union : {"Outgoing"}, v : OutgoingValues,
     wire : {None}, back : {None}]
    \cup [stage : {"value"}, union : {"Incoming"}, v : IncomingValues,
          wire : {None}, back : {None}]
    \cup [stage : {"value"}, union : {"SessionMetadata|Error"},
          v : HandshakeValues, wire : {None}, back : {None}]

InitCodec == InitState /\ codec \in CodecInputs

quiet == <<req_id, req_id_registry, queue, call, sent, caller, tg>>

\* converter.dumps on the value
Encode ==
    /\ codec.stage = "value"
    /\ codec' = [codec EXCEPT !.stage = "frame",
                               !.wire = encode(codec.v, codec.union)]
    /\ UNCHANGED quiet
    /\ UNCHANGED inbound

\* converter.loads on the frame
Decode ==
    /\ codec.stage = "frame"
    /\ codec' = [codec EXCEPT !.stage = "back",
                               !.back = decode(codec.wire, codec.union)]
    /\ UNCHANGED quiet
    /\ UNCHANGED inbound

NextCodec == Encode \/ Decode

SpecCodec == InitCodec /\ [][NextCodec]_vars

(******************** declared return types ********************************)
\* the response class each correlated facade method declares beside Error
ResponseKind(op) ==
    CASE op = "set_indicator"  -> "IndicatorResponse"
      [] op = "send_channel"   -> "ChannelResponse"
      [] op = "teleport"       -> "TeleportResponse"
      [] op = "get_room_users" -> "GetRoomUsersResponse"

(*************************** properties ************************************)
\* call c is a correlated facade call that has taken its id
Correlated(c) == call[c].pc /= "idle" /\ call[c].op \in CorrelatedOps

\* call c has not returned or raised yet
Suspended(c) == call[c].pc \in {"send", "get"}

\* the frames instance h has handed to its transport
SentFrames(h) == {sent[h][i] : i \in 1..Len(sent[h])}

\* what the server may have sent, decoded
IncomingMessages == {loads(fr) : fr \in InFrames} \ {DecodeError}

\* C1: a correlated call that has returned, returned an incoming message
\* whose rid is the id stamped on the request it sent, and that id is the
\* id of no other call's request - whatever the number of calls outstanding
\* and the order in which the responses arrived.
C1_EachCallGetsItsOwnResponse ==
    \A c \in Calls :
        (Correlated(c) /\ call[c].pc = "done") =>
            /\ Len(call[c].ret) = 1
            /\ call[c].ret[1] \in IncomingMessages
            /\ call[c].ret[1].rid = call[c].req.rid
            /\ dumps(call[c].req) \in SentFrames(call[c].hr)
            /\ \A d \in Calls \ {c} :
                   Correlated(d) => call[d].req.rid /= call[c].ret[1].rid

\* two calls were outstanding together and both have returned, the
\* response of the call started first having arrived last
C1_Witness ==
    /\ \A c \in Calls : Correlated(c) /\ call[c].pc = "done"
    /\ nread = 2
    /\ frame.rid = call[1].req.rid
    /\ call[1].ret /= call[2].ret

\* C2: on a fresh process two teleport calls get the ids "0" and "1"; when
\* the call with id "1" has returned and nothing was delivered for "0", the
\* call with id "0" has not returned: it is still suspended, and its
\* registry entry is still there for its own response.
C2_TwoTeleports ==
    \A c, d \in Calls :
        ( /\ c /= d
          /\ Cardinality({e \in Calls : Correlated(e)}) = 2
          /\ Correlated(c) /\ call[c].op = "teleport"
          /\ Correlated(d) /\ call[d].op = "teleport" ) =>
            /\ {call[c].req.rid, call[d].req.rid} = {"0", "1"}
            /\ ( /\ call[d].req.rid = "1"
                 /\ call[d].pc = "done"
                 /\ ndeliv[c] = 0
                 /\ call[c].pc /= "raised" ) =>
                     /\ call[d].ret[1].rid = "1"
                     /\ Suspended(c)
                     /\ call[c].ret = <<>>
                     /\ queue[c] = <<>>
                     /\ Has(req_id_registry, "0")
                     /\ req_id_registry["0"] = c

\* the teleport with id "1" has returned while the one with id "0" waits
C2_Witness ==
    \E c, d \in Calls :
        /\ call[c].op = "teleport" /\ call[d].op = "teleport"
        /\ call[c].req.rid = "0" /\ call[d].req.rid = "1"
        /\ call[d].pc = "done" /\ call[d].ret[1].kind = "TeleportResponse"
        /\ call[c].pc = "get" /\ queue[c] = <<>>

\* C3 (as stated): the registry holds entries only for the ids of calls
\* that are still suspended.
C3_RegistryOnlySuspended ==
    \A rid \in DOMAIN req_id_registry :
        \E c \in Calls :
            Correlated(c) /\ call[c].rid = rid /\ Suspended(c)

\* C4: a decoded message whose id has no live registry entry - an id never
\* issued, or one whose entry was removed by an earlier delivery - is
\* dropped: no queue receives it, no call changes, the registry is as it
\* was and no handler is started.
C4_UnknownIdDropped ==
    [][ ( /\ nread' = nread + 1
          /\ loads(frame').kind /= "DecodeError"
          /\ loads(frame').rid /= None
          /\ loads(frame').rid \notin DOMAIN req_id_registry ) =>
            /\ outcome' = "dropped"
            /\ req_id_registry' = req_id_registry
            /\ queue' = queue
            /\ ndeliv' = ndeliv
            /\ call' = call
            /\ handled' = handled ]_vars

\* a second message for an id already delivered and returned was dropped
\* while another call was waiting
C4_Witness ==
    /\ outcome = "dropped"
    /\ \E c, d \in Calls :
          /\ Correlated(c) /\ call[c].pc = "done"
          /\ frame.rid = call[c].rid
          /\ d /= c /\ call[d].pc = "get" /\ queue[d] = <<>>
          /\ Has(req_id_registry, call[d].rid)

\* the ids the counter has yielded so far
Issued == {str(n) : n \in CountStart..(req_id - 1)}

\* C5: the registry has one pending entry per id and it belongs to the one
\* call that was issued that id; the ids of any two correlated calls
\* differ; and a call that starts is issued the counter's value, the
\* counter moves up, and the id issued is neither pending nor was it
\* issued before.
C5_IdsNeverReused ==
    /\ [] ( /\ \A c, d \in Calls :
                  (Correlated(c) /\ Correlated(d) /\ c /= d) =>
                      call[c].rid /= call[d].rid
            /\ \A c \in Calls : Correlated(c) => call[c].rid \in Issued
            /\ \A rid \in DOMAIN req_id_registry :
                  /\ Correlated(req_id_registry[rid])
                  /\ call[req_id_registry[rid]].rid = rid )
    /\ [][ \A c \in Calls :
              (call[c].pc = "idle" /\ call'[c].op \in CorrelatedOps) =>
                  /\ req_id' > req_id
                  /\ call'[c].rid \notin Issued
                  /\ call'[c].rid \notin DOMAIN req_id_registry
                  /\ call'[c].rid \in DOMAIN req_id_registry' ]_vars

\* two requests are pending at once
C5_Witness ==
    /\ Cardinality(DOMAIN req_id_registry) = 2
    /\ \A c \in 1..2 : Correlated(c) /\ Suspended(c)

\* what has been put on call c's queue, whether or not c has taken it
Delivered(c) == queue[c] \o call[c].ret

\* C6: what is delivered to a request's queue is the first message read,
\* since the request took its id, that carries the id; that message is
\* delivered, and nothing else is ever put on the queue.
C6_FirstMatchOnly ==
    \A c \in Calls :
        /\ ndeliv[c] <= 1
        /\ firstMatch[c] /= <<>> => Delivered(c) = firstMatch[c]
        /\ Delivered(c) /= <<>> =>
               Correlated(c) /\ ndeliv[c] = 1 /\ Delivered(c) = firstMatch[c]

\* a later, different message with the same id was read and not delivered
C6_Witness ==
    \E c \in Calls :
        /\ Correlated(c)
        /\ call[c].pc = "done"
        /\ nread = 2
        /\ frame.rid = call[c].rid
        /\ loads(frame) /= call[c].ret[1]
        /\ queue[c] = <<>>

\* C7: a one-way facade call (chat, send_whisper, send_emote, walk_to)
\* appends exactly one frame, of a one-way type, to its instance's
\* transport and to no other; the counter, the registry and every queue
\* are as before; and the call is over when the frame is handed over.
C7_OneWaySendsOneFrame ==
    [][ \A c \in Calls :
          (call[c].pc = "idle" /\ call'[c].op \in OneWayOps) =>
              /\ call'[c].pc = "done"
              /\ LET h == call'[c].hr
                 IN /\ Len(sent'[h]) = Len(sent[h]) + 1
                    /\ SubSeq(sent'[h], 1, Len(sent[h])) = sent[h]
                    /\ sent'[h][Len(sent'[h])]._type \in OneWayTypes
                    /\ \A g \in Instances \ {h} : sent'[g] = sent[g]
              /\ req_id' = req_id
              /\ req_id_registry' = req_id_registry
              /\ queue' = queue
              /\ \A d \in Calls \ {c} : call'[d] = call[d] ]_vars

\* send_emote without a target was called while a request was pending
C7_Witness ==
    \E c, d \in Calls :
        /\ call[c].op = "send_emote" /\ call[c].pc = "done"
        /\ sent[call[c].hr] = <<[_type |-> "EmoteRequest", emote_id |-> "wave"]>>
        /\ Correlated(d) /\ call[d].pc = "send"
        /\ DOMAIN req_id_registry = {call[d].rid}

\* C8: an Error carrying a pending id is put on that request's queue and
\* the call returns it as its value; neither the delivery nor the return
\* changes any other call, its queue or its registry entry.
C8_ErrorIsReturnedLocally ==
    /\ [] \A c \in Calls :
             ( /\ Correlated(c)
               /\ firstMatch[c] /= <<>>
               /\ firstMatch[c][1].kind = "Error"
               /\ queue[c] = <<>> ) =>
                 call[c].pc = "done" /\ call[c].ret = firstMatch[c]
    /\ [][ \A c \in Calls :
              ( \/ /\ ndeliv'[c] = ndeliv[c] + 1
                   /\ queue'[c][Len(queue'[c])].kind = "Error"
                \/ /\ call[c].pc = "get" /\ call'[c].pc /= "get"
                   /\ Head(queue[c]).kind = "Error" ) =>
                  \A d \in Calls \ {c} :
                      /\ call'[d] = call[d]
                      /\ queue'[d] = queue[d]
                      /\ Has(req_id_registry, call[d].rid) =>
                            /\ Has(req_id_registry', call[d].rid)
                            /\ req_id_registry'[call[d].rid] =
                                   req_id_registry[call[d].rid] ]_vars

\* one call returned an Error; the other was resolved afterwards by its
\* own response
C8_Witness ==
    \E c, d \in Calls :
        /\ Correlated(c) /\ call[c].pc = "done"
        /\ call[c].ret[1].kind = "Error"
        /\ Correlated(d) /\ call[d].pc = "done"
        /\ call[d].ret[1].kind = "TeleportResponse"
        /\ frame.rid = call[d].rid

\* C9 (as stated): every event read - chat, whisper, emote, user joined,
\* user left, tip, channel message, session metadata - starts exactly one
\* handler, the one the dispatch table gives for its discriminant.
C9_EveryEventOneHandler ==
    [][ ( /\ nread' = nread + 1
          /\ loads(frame').kind \in EventKinds ) =>
            handled' = Append(handled, [handler |-> Route(loads(frame')),
                                        msg |-> loads(frame')]) ]_vars

\* C10: a frame with a tag no union knows is a DecodeError: the error is
\* surfaced, nothing is put on a queue, no handler starts, the registry and
\* the calls are as before, and the loop is still running.
C10_UnknownTagIsDecodeError ==
    [][ ( /\ nread' = nread + 1
          /\ frame'._type \in UnknownTags ) =>
            /\ outcome' = "decode_error"
            /\ decode_errors' = decode_errors + 1
            /\ req_id_registry' = req_id_registry
            /\ queue' = queue
            /\ ndeliv' = ndeliv
            /\ call' = call
            /\ handled' = handled
            /\ loop' = "running" ]_vars

\* after a frame with an unknown tag and the id of a pending request, the
\* loop read the request's response and delivered it
C10_Witness ==
    /\ decode_errors = 1
    /\ nread = 2
    /\ outcome = "delivered"
    /\ loop = "running"

\* C11: a correlated call waiting at its queue leaves the wait in one way
\* only: it returns the value at the head of its queue, which an incoming
\* message carrying its id put there; a value reaches a queue only when the
\* read loop reads a message with that call's id; and while nothing has
\* been delivered for it the call stays at the wait.
C11_ReturnsOnlyOnDelivery ==
    /\ [] \A c \in Calls : Len(queue[c]) <= ndeliv[c]
    /\ [][ \A c \in Calls :
              /\ call[c].pc = "get" =>
                    \/ call'[c] = call[c]
                    \/ /\ ndeliv[c] >= 1
                       /\ queue[c] /= <<>>
                       /\ Head(queue[c]).rid = call[c].rid
                       /\ call'[c] = [call[c] EXCEPT !.pc = "done",
                                        !.ret = <<Head(queue[c])>>]
              /\ (call[c].pc = "get" /\ ndeliv'[c] = 0) => call'[c].pc = "get"
              /\ ndeliv'[c] /= ndeliv[c] =>
                    /\ nread' = nread + 1
                    /\ loads(frame').rid = call[c].rid
                    /\ Has(req_id_registry, call[c].rid) ]_vars

\* every frame of the run was read, none carried the waiting call's id,
\* and the call is still waiting
C11_Witness ==
    \E c \in Calls :
        /\ Correlated(c) /\ call[c].pc = "get"
        /\ nread = MaxFrames
        /\ ndeliv[c] = 0 /\ queue[c] = <<>>
        /\ frame.rid /= call[c].rid
        /\ Has(req_id_registry, call[c].rid)

\* C12: call_in creates a task in the task group and does not run the
\* callback itself; the task runs the callback once, and not before the
\* delay has passed since call_in; it always gets to run it; and no step of
\* call_in or of its task changes the counter, the registry, a queue or a
\* call.
C12_CallInRunsOnceAfterDelay ==
    /\ [] \A t \in Timers :
             /\ tg[t].runs <= 1
             /\ tg[t].runs = 1 <=> tg[t].pc = "ran"
             /\ tg[t].runs = 1 => tg[t].elapsed >= tg[t].delay
    /\ [][ \A t \in Timers :
              /\ tg'[t].runs >= tg[t].runs
              /\ (tg[t].pc = "none" /\ tg'[t].pc /= "none") =>
                     tg'[t].pc = "created" /\ tg'[t].runs = 0
              /\ tg[t].pc = "ran" => tg'[t] = tg[t]
              /\ tg'[t] /= tg[t] =>
                     /\ req_id' = req_id
                     /\ req_id_registry' = req_id_registry
                     /\ queue' = queue
                     /\ call' = call ]_vars
    /\ \A t \in Timers : (tg[t].pc /= "none") ~> (tg[t].runs = 1)

\* a callback scheduled with the longest delay ran while a teleport was
\* waiting for its response, which then arrived
C12_Witness ==
    \E t \in Timers, c \in Calls :
        /\ tg[t].pc = "ran" /\ tg[t].delay = MaxDelay
        /\ Correlated(c) /\ call[c].pc = "done"
        /\ outcome = "delivered"
        /\ tg["cb2"].pc = "sleeping"

SentRequests(h) == {fr \in SentFrames(h) : "rid" \in DOMAIN fr}

\* C14: a request frame is handed to the transport only after the registry
\* entry for its rid was made: for every frame sent, the entry is there or
\* was removed by a delivery to that call; at the send itself the same
\* holds; and a message with the rid of a sent request for which nothing
\* was delivered yet is delivered to that request's queue, not dropped.
C14_RegisteredBeforeSent ==
    /\ [] \A h \in Instances : \A fr \in SentRequests(h) :
             \E c \in Calls :
                 /\ Correlated(c) /\ call[c].hr = h
                 /\ dumps(call[c].req) = fr
                 /\ Has(req_id_registry, fr.rid) \/ ndeliv[c] = 1
    /\ [][ /\ \A c \in Calls :
                (call[c].pc = "send" /\ call'[c].pc = "get") =>
                    /\ call[c].rid \in Issued
                    /\ Has(req_id_registry, call[c].rid) \/ ndeliv[c] = 1
                    /\ req_id_registry' = req_id_registry
           /\ \A c \in Calls :
                ( /\ nread' = nread + 1
                  /\ Correlated(c)
                  /\ dumps(call[c].req) \in SentRequests(call[c].hr)
                  /\ ndeliv[c] = 0
                  /\ loads(frame').kind /= "DecodeError"
                  /\ loads(frame').rid = call[c].rid ) =>
                    /\ outcome' = "delivered"
                    /\ queue'[c] = <<loads(frame')>> ]_vars

\* the first frame the loop read after a request was sent carried the
\* request's rid, and it was delivered
C14_Witness ==
    \E c \in Calls :
        /\ Correlated(c) /\ call[c].pc = "get"
        /\ dumps(call[c].req) \in SentRequests(call[c].hr)
        /\ nread = 1
        /\ frame.rid = call[c].rid
        /\ outcome = "delivered"
        /\ queue[c] = <<loads(frame)>>
        /\ ~ Has(req_id_registry, call[c].rid)

\* C15: while a call made by a handler is suspended the read loop is still
\* running and can read any next frame; a message with the id of such a
\* call, waiting at its queue, is delivered to it by the loop; and a
\* handler's call whose queue has its response does return.
C15_HandlerDoesNotBlockReadLoop ==
    /\ [] ( (\E c \in Calls : caller[c] > 0 /\ Suspended(c)) =>
               /\ loop = "running"
               /\ nread < MaxFrames =>
                      \A fr \in HandlerFrames : ENABLED ReadLoop(fr) )
    /\ [][ \A c \in Calls :
              ( /\ caller[c] > 0
                /\ call[c].pc = "get"
                /\ ndeliv[c] = 0
                /\ nread' = nread + 1
                /\ loads(frame').rid = call[c].rid ) =>
                  /\ outcome' = "delivered"
                  /\ queue'[c] = <<loads(frame')>>
                  /\ loop' = "running" ]_vars
    /\ \A c \in Calls :
           (caller[c] > 0 /\ call[c].pc = "get" /\ queue[c] /= <<>>)
               ~> (call[c].pc = "done" /\ HandlerFree(caller[c]))

\* on_chat was started for a ChatEvent, awaited teleport, the loop read the
\* TeleportResponse and the handler went on
C15_Witness ==
    \E c \in Calls :
        /\ caller[c] = 1
        /\ handled[1].handler = "on_chat"
        /\ call[c].pc = "done"
        /\ call[c].ret[1].kind = "TeleportResponse"
        /\ nread = 2
        /\ HandlerFree(1)

\* do_req_resp applied to the GetRoomUsersRequest of call c on instance h
do_req_resp_GetRoomUsersRequest(c, h) ==
    /\ do_req_resp_steps(c, h, "get_room_users", Request("get_room_users"))
    /\ UNCHANGED caller

\* C16: from every state, a step of get_room_users is a step of
\* do_req_resp on a GetRoomUsersRequest and the other way round - the same
\* id taken, the same registry entry, the same stamped request - and one
\* can start where the other can; the frame a get_room_users call sends is
\* the GetRoomUsersRequest with that id, and what it returns is the value
\* delivered to its queue.
C16_GetRoomUsersAsDoReqResp ==
    /\ [] \A c \in Calls, h \in Instances :
             ENABLED get_room_users(c, h)
                 <=> ENABLED do_req_resp_GetRoomUsersRequest(c, h)
    /\ [][ \A c \in Calls, h \in Instances :
              get_room_users(c, h) <=> do_req_resp_GetRoomUsersRequest(c, h)
         ]_vars
    /\ [] \A c \in Calls :
             (Correlated(c) /\ call[c].op = "get_room_users") =>
                 /\ call[c].pc \in {"get", "done"} =>
                        [_type |-> "GetRoomUsersRequest", rid |-> call[c].rid]
                            \in SentFrames(call[c].hr)
                 /\ call[c].pc = "done" =>
                        /\ call[c].ret = firstMatch[c]
                        /\ ndeliv[c] = 1

\* get_room_users, started after a teleport, took the id "1", sent its
\* request and returned the GetRoomUsersResponse delivered to it
C16_Witness ==
    \E c \in Calls :
        /\ call[c].op = "get_room_users" /\ call[c].pc = "done"
        /\ call[c].rid = "1"
        /\ Has(req_id_registry, "0")
        /\ call[c].ret = <<[kind |-> "GetRoomUsersResponse", rid |-> "1",
                            whisper |-> FALSE]>>

\* C17 (as stated): what a correlated call returns is the response variant
\* paired with its request, or an Error; a message of another variant that
\* carries the pending id is not returned.
C17_ReturnsPairedVariantOrError ==
    \A c \in Calls :
        (Correlated(c) /\ call[c].pc = "done") =>
            call[c].ret[1].kind \in {ResponseKind(call[c].op), "Error"}

\* the correlated calls started before call c
CorrelatedBefore(c) == {d \in Calls : d < c /\ Correlated(d)}

\* C18: one counter and one registry serve every instance: the k-th
\* correlated call started in the process, on whichever instance, holds
\* the decimal string of k-1 as its id, so the ids issued are "0" .. "n-1"
\* and pairwise distinct across instances; and the step that issues an id
\* also registers it, so no state has an issued id that was not
\* registered.
C18_SharedCounterConsecutiveIds ==
    /\ [] ( /\ \A c \in Calls :
                  Correlated(c) =>
                      /\ call[c].rid = str(Cardinality(CorrelatedBefore(c)))
                      /\ call[c].req.rid = call[c].rid
                      /\ Has(req_id_registry, call[c].rid) \/ ndeliv[c] = 1
            /\ {call[c].rid : c \in {d \in Calls : Correlated(d)}}
                   = {str(n) : n \in 0..(req_id - 1)}
            /\ \A c, d \in Calls :
                  (Correlated(c) /\ Correlated(d) /\ c /= d) =>
                      call[c].rid /= call[d].rid )
    /\ [][ \A c \in Calls :
              (call[c].pc = "idle" /\ call'[c].op \in CorrelatedOps) =>
                  /\ call'[c].rid = str(req_id)
                  /\ req_id' = req_id + 1
                  /\ Has(req_id_registry', call'[c].rid)
                  /\ req_id_registry'[call'[c].rid] = c
                  /\ \A r \in DOMAIN req_id_registry :
                         /\ Has(req_id_registry', r)
                         /\ req_id_registry'[r] = req_id_registry[r] ]_vars

\* a teleport on one instance and get_room_users on the other hold the
\* ids "0" and "1", both registered
C18_Witness ==
    /\ call[1].hr = "hr1" /\ call[1].op = "teleport" /\ call[1].rid = "0"
    /\ call[2].hr = "hr2" /\ call[2].op = "get_room_users"
    /\ call[2].rid = "1"
    /\ DOMAIN req_id_registry = {"0", "1"}
    /\ req_id = 2

\* C19: a send that raises ends its own call and nothing else: the id was
\* taken and its entry made before, the failing step leaves the counter,
\* the registry, the queues, the frames sent and every other call as they
\* were; afterwards the call stays ended, its entry stays in the registry
\* for as long as no message with its id is read, and no later call is
\* issued its id.
C19_SendFailureIsLocal ==
    /\ [] \A c \in Calls :
             call[c].pc = "raised" =>
                 /\ Correlated(c)
                 /\ call[c].rid \in Issued
                 /\ call[c].ret = <<>>
                 /\ dumps(call[c].req) \notin SentFrames(call[c].hr)
                 /\ ndeliv[c] = 0 =>
                        /\ Has(req_id_registry, call[c].rid)
                        /\ req_id_registry[call[c].rid] = c
    /\ [][ \A c \in Calls :
              /\ (call[c].pc = "send" /\ call'[c].pc = "raised") =>
                    /\ req_id' = req_id
                    /\ req_id_registry' = req_id_registry
                    /\ queue' = queue
                    /\ sent' = sent
                    /\ \A d \in Calls \ {c} : call'[d] = call[d]
              /\ call[c].pc = "raised" =>
                    /\ call'[c] = call[c]
                    /\ \A d \in Calls :
                          (call[d].pc = "idle" /\ call'[d].pc /= "idle") =>
                              call'[d].rid /= call[c].rid ]_vars

\* the first call's send raised and its entry is still there, while the
\* second call, started afterwards, got its response and returned
C19_Witness ==
    /\ call[1].pc = "raised" /\ call[1].rid = "0"
    /\ DOMAIN req_id_registry = {"0"}
    /\ call[2].pc = "done" /\ call[2].rid = "1"
    /\ call[2].ret[1].rid = "1"
    /\ nread = MaxFrames

====
